---- MODULE Spec2Model ----
(***************************************************************************)
(* Connection lifecycle of the UnQlite binding (src/engine/mod.rs) and the *)
(* open-mode mapping (src/openmode.rs).                                    *)
(*                                                                         *)
(* A state is: the Connection values (struct UnQlite) that constructors    *)
(* have returned, the engine-side instances behind their handles, the      *)
(* scope of the thread that owns them and how far it is in leaving it, the *)
(* worker threads that borrow them, and the outcome of the last step.      *)
(***************************************************************************)
EXTENDS Integers, Sequences, FiniteSets, TLC

(* ------------------------------ bounds -------------------------------- *)

\* Connection values a run may construct.
MaxConns == 2
\* Threads of the process.
NumThreads == 2
\* close calls recorded per Connection.
MaxCloseCalls == 2

Slots == 1..MaxConns
\* One engine instance for each Connection a run may construct.
Handles == 1..MaxConns
Threads == 1..NumThreads

\* The null pointer: no engine instance.
NULL == 0

(* --------------------------- open-mode mapping ------------------------ *)

OpenMode == {"ReadOnly", "Create", "TempDB", "MMap"}

UNQLITE_OPEN_READONLY == 1
UNQLITE_OPEN_READWRITE == 2
UNQLITE_OPEN_CREATE == 4
UNQLITE_OPEN_TEMP_DB == 16
UNQLITE_OPEN_MMAP == 256

\* Width of the flag word (u32).
FlagBits == 32

RECURSIVE BitOrFrom(_, _, _)
BitOrFrom(a, b, n) ==
    IF n = 0 \/ (a = 0 /\ b = 0) THEN 0
    ELSE (IF a % 2 = 1 \/ b % 2 = 1 THEN 1 ELSE 0)
         + 2 * BitOrFrom(a \div 2, b \div 2, n - 1)

\* The u32 operator `|`.
BitOr(a, b) == BitOrFrom(a, b, FlagBits)

RECURSIVE BitAndFrom(_, _, _)
BitAndFrom(a, b, n) ==
    IF n = 0 \/ a = 0 \/ b = 0 THEN 0
    ELSE (IF a % 2 = 1 /\ b % 2 = 1 THEN 1 ELSE 0)
         + 2 * BitAndFrom(a \div 2, b \div 2, n - 1)

\* The u32 operator `&`.
BitAnd(a, b) == BitAndFrom(a, b, FlagBits)

HasFlag(flags, f) == BitAnd(flags, f) = f

\* into with the MMap arm giving the mmap flag alone.
into_mmap_alone(mode) ==
    CASE mode = "ReadOnly" -> UNQLITE_OPEN_READONLY
      [] mode = "Create" -> UNQLITE_OPEN_CREATE
      [] mode = "TempDB" -> UNQLITE_OPEN_TEMP_DB
      [] mode = "MMap" -> UNQLITE_OPEN_MMAP

\* impl Into<u32> for OpenMode
into(mode) ==
    CASE mode = "ReadOnly" -> UNQLITE_OPEN_READONLY
      [] mode = "Create" -> UNQLITE_OPEN_CREATE
      [] mode = "TempDB" -> UNQLITE_OPEN_TEMP_DB
      [] mode = "MMap" -> BitOr(UNQLITE_OPEN_MMAP, UNQLITE_OPEN_READONLY)

(* ------------------------------ filenames ----------------------------- *)

\* Filenames are byte strings.  ":mem:", "", "t.db" and "t\0b".
MemPath == <<58, 109, 101, 109, 58>>
EmptyPath == <<>>
DiskPath == <<116, 46, 100, 98>>
NulPath == <<116, 0, 98>>

Filenames == {MemPath, DiskPath, NulPath}

\* CString::new(filename): an error when the bytes contain a 0 byte.
CStringNewOk(filename) == \A i \in 1..Len(filename) : filename[i] # 0

(* -------------------------------- state ------------------------------- *)

VARIABLES
    conns,          \* slot -> the Connection value constructed in it
    engine,         \* handle -> the engine instance behind it
    scope,          \* where the owning thread is in its scope
    aborted,        \* "no", or how the process was aborted: "panic", "crash"
    refs,           \* slot -> threads holding a shared borrow of it
    inCall,         \* thread -> handle of the engine call it is inside
    txn,            \* slot -> transaction state of the Connection
    last,           \* the step just taken and its outcome
    enableThreads   \* the build has the engine's mutex (enable-threads)

vars == <<conns, engine, scope, aborted, refs, inCall, txn, last, enableThreads>>

\* The thread whose scope owns the Connections; the others borrow them.
Owner == CHOOSE t \in Threads : \A u \in Threads : t <= u
Workers == Threads \ {Owner}

\* struct UnQlite { db }: the only field is the handle.  st, closeCalls
\* (engine_close calls made by close on this value) and the drop* fields
\* (those of them made by Drop::drop, and the status of the last) record the
\* life of the value, not data the value holds.
NoConn ==
    [st |-> "none", db |-> NULL, closeCalls |-> 0, dropCloses |-> 0,
     dropStatus |-> "NONE"]

NoInstance == [st |-> "unalloc", flags |-> 0]

NoOp ==
    [op |-> "none", conn |-> 0, status |-> "NONE", res |-> "NONE",
     eng |-> FALSE, pre |-> "NONE", opens |-> <<>>, given |-> "none",
     arg |-> <<>>]

Init ==
    /\ conns = [c \in Slots |-> NoConn]
    /\ engine = [h \in Handles |-> NoInstance]
    /\ scope = "running"
    /\ aborted = "no"
    /\ refs = [c \in Slots |-> {}]
    /\ inCall = [t \in Threads |-> NULL]
    /\ txn = [c \in Slots |-> "Idle"]
    /\ last = NoOp
    /\ enableThreads \in BOOLEAN

(* ------------------------------- engine ------------------------------- *)

\* Handles the engine has given out, released or not.
Allocated == {h \in Handles : engine[h].st # "unalloc"}

IsOpen(h) == h \in Handles /\ engine[h].st = "open"

\* What an engine call on handle h can do.  On an open instance it returns
\* a status.  On anything else (the null pointer, a released instance) the
\* call reads freed or foreign memory: it may return either status or take
\* the process down.
EngineOutcomes(h) ==
    IF IsOpen(h) THEN {"OK", "ERR"} ELSE {"OK", "ERR", "CRASH"}

\* The engine gives out its instances in order.
HasFreshHandle == \E h \in Handles : engine[h].st = "unalloc"
FreshHandle ==
    IF HasFreshHandle
    THEN CHOOSE h \in Handles :
            engine[h].st = "unalloc" /\ \A g \in 1..(h - 1) : engine[g].st # "unalloc"
    ELSE NULL

\* unqlite_close(h): the instance is released.
EngineAfterClose(eng, h) ==
    IF h \in Handles /\ eng[h].st # "unalloc"
    THEN [eng EXCEPT ![h].st = "closed"]
    ELSE eng

\* unqlite_open(&mut db, filename, flags) returning UNQLITE_OK: a fresh
\* instance h is stored through the out pointer.
EngineAfterOpen(eng, h, flags) ==
    [eng EXCEPT ![h] = [st |-> "open", flags |-> flags]]

\* mem::uninitialized(): the handle field holds whatever the memory held,
\* the null pointer or a pointer the engine gave out earlier.
Uninitialized == {NULL} \cup Allocated

\* error_or!(code, ok): Ok(ok) on UNQLITE_OK, Err(code) otherwise.
error_or(code) == IF code = "OK" THEN "Ok" ELSE "Err"

\* unwrap replaced by a call that lets an Err go by.
unwrap_ignoring(r) == "value"

\* Result::unwrap: the value of Ok, a panic on Err.
unwrap(r) == IF r = "Ok" THEN "value" ELSE "panic"

\* How a step that got engine outcome o and then panicked or not ends the
\* process, if it does.
AbortAfter(o, panicAbort) ==
    IF o = "CRASH" THEN "crash" ELSE IF panicAbort THEN "panic" ELSE "no"

\* What the handle a Connection gives to an engine call is: the instance its
\* open established, or that instance after a close of this Connection was
\* already issued on it.
GivenBy(c) == IF conns[c].closeCalls > 0 THEN "closed" ELSE "established"

\* What the handle is that the value built inside open gives to
\* unqlite_close when it is dropped there: the instance unqlite_open
\* established, or the placeholder of UnQlite::default().
GivenInOpen(status) == IF status = "OK" THEN "established" ELSE "placeholder"

(* ------------------------------ panics -------------------------------- *)

\* A panic starts unwinding the scope; a panic while the scope is already
\* unwinding aborts the process.
ScopeAfterPanic == "unwinding"
AbortsOnPanic == scope = "unwinding"

CanAct(t) == aborted = "no" /\ inCall[t] = NULL

(* ---------------------------- constructors ---------------------------- *)

HasSlot == \E c \in Slots : conns[c].st = "none"
NextSlot ==
    CHOOSE c \in Slots :
        conns[c].st = "none" /\ \A d \in 1..(c - 1) : conns[d].st # "none"

\* What the open call can meet: a filename CString::new rejects, or the
\* engine's status for unqlite_open.
OpenStatuses(filename) ==
    IF CStringNewOk(filename) THEN {"OK", "ERR"} ELSE {"BADNAME"}

\* open with the out pointer not handed to the engine: db stays as it was.
HandleAfterOpen_unset(status, h, g) == g

\* The db field of the value built by UnQlite::default() when open is done
\* with it: the fresh instance h the engine stored through &mut unqlite.db,
\* or still the uninitialized g.
HandleAfterOpen(status, h, g) == IF status = "OK" THEN h ELSE g

\* CString::new(filename) when it succeeds: the bytes and a terminating 0.
CStringNew(filename) == filename \o <<0>>

\* The path unqlite_open reads at filename.as_ptr(): the bytes before the
\* first 0.
CStr(ptr) ==
    LET n == CHOOSE k \in 1..Len(ptr) :
                 ptr[k] = 0 /\ \A j \in 1..(k - 1) : ptr[j] # 0
    IN  SubSeq(ptr, 1, n - 1)

\* open that calls unqlite_open again when it returned a non-success status.
OpenCalls_retry(status, filename, flags) ==
    LET call == [path |-> CStr(CStringNew(filename)), flags |-> flags]
    IN  CASE status = "BADNAME" -> <<>>
          [] status = "ERR" -> <<call, call>>
          [] OTHER -> <<call>>

\* The unqlite_open calls open makes: none when CString::new failed and try!
\* returned before it, else one.
OpenCalls(status, filename, flags) ==
    IF status = "BADNAME"
    THEN <<>>
    ELSE <<[path |-> CStr(CStringNew(filename)), flags |-> flags]>>

\* open that returns Ok whatever CString::new and the engine said.
OpenResult_unchecked(status) == "Ok"

\* The Result open returns: Err from try!, or error_or! of the status.
OpenResult(status) == IF status = "BADNAME" THEN "Err" ELSE error_or(status)

\* The failure paths of open: the value built by UnQlite::default() goes
\* out of scope holding db and Drop::drop closes it; then either that drop
\* panics, or open returns Err and the constructor's unwrap panics.
OpenFails(ctor, filename, status, db, calls) ==
    \E o \in EngineOutcomes(db) :
        /\ engine' = EngineAfterClose(engine, db)
        /\ scope' = ScopeAfterPanic
        /\ aborted' = AbortAfter(o, FALSE)
        /\ last' = [NoOp EXCEPT !.op = ctor, !.status = status, !.res = "panic",
                                !.eng = (calls # <<>>), !.opens = calls,
                                !.given = GivenInOpen(status), !.arg = filename]
        /\ UNCHANGED <<conns, refs, inCall, txn, enableThreads>>

\* The constructor returns the value open built.
OpenReturns(ctor, filename, status, db, flags, calls) ==
    /\ HasSlot
    /\ status = "OK" => HasFreshHandle
    /\ engine' = IF status = "OK"
                 THEN EngineAfterOpen(engine, FreshHandle, flags)
                 ELSE engine
    /\ conns' = [conns EXCEPT ![NextSlot] = [NoConn EXCEPT !.st = "live", !.db = db]]
    /\ last' = [NoOp EXCEPT !.op = ctor, !.conn = NextSlot, !.status = status,
                            !.res = "Ok", !.eng = (calls # <<>>), !.opens = calls,
                            !.arg = filename]
    /\ UNCHANGED <<scope, aborted, refs, inCall, txn, enableThreads>>

\* UnQlite::open(filename, mode) followed by the constructor's unwrap().
open(ctor, filename, mode) ==
    /\ CanAct(Owner)
    /\ scope = "running"
    /\ \E status \in OpenStatuses(filename) :
       \E g \in (IF status = "OK" THEN {NULL} ELSE Uninitialized) :
        LET db == HandleAfterOpen(status, FreshHandle, g)
            calls == OpenCalls(status, filename, into(mode))
        IN  IF unwrap(OpenResult(status)) = "value"
            THEN OpenReturns(ctor, filename, status, db, into(mode), calls)
            ELSE OpenFails(ctor, filename, status, db, calls)

create(filename) == open("create", filename, "Create")

create_in_memory == open("create_in_memory", MemPath, "Create")

create_temp == open("create_temp", EmptyPath, "TempDB")

open_mmap(filename) == open("open_mmap", filename, "MMap")

open_readonly(filename) == open("open_readonly", filename, "ReadOnly")

Constructors == {"create", "create_in_memory", "create_temp", "open_mmap", "open_readonly"}

(* --------------------------- close and drop --------------------------- *)

\* &mut self: the owner holds the value and nobody borrows it.
Exclusive(c) ==
    /\ conns[c].st = "live"
    /\ refs[c] = {}

\* Number of close calls Drop::drop makes.
DropCloseCalls == 1

\* Explicit closes are counted up to the bound, leaving room for the
\* close that Drop::drop makes.
CloseCountable(c) == conns[c].closeCalls + DropCloseCalls < MaxCloseCalls

\* UnQlite::close(&mut self): unqlite_close(self.db), whatever came before.
close(c) ==
    /\ CanAct(Owner)
    /\ scope = "running"
    /\ Exclusive(c)
    /\ CloseCountable(c)
    /\ \E o \in EngineOutcomes(conns[c].db) :
        /\ engine' = EngineAfterClose(engine, conns[c].db)
        /\ conns' = [conns EXCEPT ![c].closeCalls = @ + 1]
        /\ aborted' = AbortAfter(o, FALSE)
        /\ last' = [NoOp EXCEPT !.op = "close", !.conn = c, !.status = o,
                                !.res = error_or(o), !.eng = TRUE,
                                !.given = GivenBy(c)]
    /\ UNCHANGED <<scope, refs, inCall, txn, enableThreads>>

\* The locals of a scope are dropped in reverse order of declaration.
LastLive(c) == \A d \in Slots : conns[d].st = "live" => d <= c

\* Drop::drop: self.close().unwrap().
drop(c) ==
    /\ CanAct(Owner)
    /\ Exclusive(c)
    /\ \/ scope = "running"
       \/ scope \in {"exiting", "unwinding"} /\ LastLive(c)
    /\ \E o \in EngineOutcomes(conns[c].db) :
        LET panics == unwrap(error_or(o)) = "panic"
        IN  /\ engine' = EngineAfterClose(engine, conns[c].db)
            /\ conns' = [conns EXCEPT ![c].st = "dropped",
                                      ![c].closeCalls = @ + DropCloseCalls,
                                      ![c].dropCloses = @ + DropCloseCalls,
                                      ![c].dropStatus = o]
            /\ scope' = IF panics THEN ScopeAfterPanic ELSE scope
            /\ aborted' = AbortAfter(o, panics /\ AbortsOnPanic)
            /\ last' = [NoOp EXCEPT !.op = "drop", !.conn = c, !.status = o,
                                    !.res = IF panics THEN "panic" ELSE "Ok",
                                    !.eng = TRUE, !.given = GivenBy(c)]
    /\ txn' = [txn EXCEPT ![c] = "Idle"]  \* the value is gone, its state with it
    /\ UNCHANGED <<refs, inCall, enableThreads>>

(* ------------------------------- scopes ------------------------------- *)

\* The owner's scope ends normally: its locals start to be dropped.
EndScope ==
    /\ CanAct(Owner)
    /\ scope = "running"
    /\ scope' = "exiting"
    /\ last' = NoOp
    /\ UNCHANGED <<conns, engine, aborted, refs, inCall, txn, enableThreads>>

\* All locals are dropped: the owner has left its scope.
Finish ==
    /\ CanAct(Owner)
    /\ scope \in {"exiting", "unwinding"}
    /\ \A c \in Slots : conns[c].st # "live"
    /\ scope' = (IF scope = "exiting" THEN "done" ELSE "panicked")
    /\ last' = NoOp
    /\ UNCHANGED <<conns, engine, aborted, refs, inCall, txn, enableThreads>>

(* --------------------- sharing between threads ------------------------ *)

\* unsafe impl Sync for UnQlite {}: stated for every build.
IsSync == TRUE

\* The owner hands a shared borrow of a Connection to a worker thread.
share(u, c) ==
    /\ IsSync
    /\ CanAct(Owner)
    /\ scope = "running"
    /\ conns[c].st = "live"
    /\ u \notin refs[c]
    /\ refs' = [refs EXCEPT ![c] = @ \cup {u}]
    /\ last' = NoOp
    /\ UNCHANGED <<conns, engine, scope, aborted, inCall, txn, enableThreads>>

\* The borrow ends.
release(u, c) ==
    /\ CanAct(u)
    /\ u \in refs[c]
    /\ refs' = [refs EXCEPT ![c] = @ \ {u}]
    /\ last' = NoOp
    /\ UNCHANGED <<conns, engine, scope, aborted, inCall, txn, enableThreads>>

CanUse(t, c) ==
    /\ conns[c].st = "live"
    /\ \/ t = Owner /\ scope = "running"
       \/ t \in refs[c]

\* An engine that admits every call at once, mutex or not.
EngineAdmits_nomutex(h) == TRUE

\* The engine's own mutex, when the build has it, admits one call at a time
\* on an instance.
EngineAdmits(h) == enableThreads => \A u \in Threads : inCall[u] # h

\* get_config(&self, key): the engine call starts.
get_config_call(t, c) ==
    /\ CanAct(t)
    /\ CanUse(t, c)
    /\ EngineAdmits(conns[c].db)
    /\ inCall' = [inCall EXCEPT ![t] = conns[c].db]
    /\ last' = [NoOp EXCEPT !.op = "get_config_call", !.conn = c, !.eng = TRUE,
                            !.given = GivenBy(c)]
    /\ UNCHANGED <<conns, engine, scope, aborted, refs, txn, enableThreads>>

\* get_config(&self, key): the engine call returns.
get_config_return(t) ==
    /\ aborted = "no"
    /\ inCall[t] # NULL
    /\ \E o \in EngineOutcomes(inCall[t]) :
        /\ aborted' = AbortAfter(o, FALSE)
        /\ last' = [NoOp EXCEPT !.op = "get_config", !.status = o,
                                !.res = IF o = "OK" THEN "Ok" ELSE "EngineFailure",
                                !.eng = TRUE]
    /\ inCall' = [inCall EXCEPT ![t] = NULL]
    /\ UNCHANGED <<conns, engine, scope, refs, txn, enableThreads>>

(* ----------------------- transaction controller ----------------------- *)

\* The access mode a Connection value carries.  struct UnQlite has the one
\* field db, and open turns its mode into flags for the engine and keeps
\* nothing: no mode is carried.
RetainedMode(c) == "None"

ForbidsWrites(mode) == mode \in {"ReadOnly", "MMap"}

\* &mut self calls of the owner.
TxnOp(c) ==
    /\ CanAct(Owner)
    /\ scope = "running"
    /\ Exclusive(c)

\* A transaction call that is refused locally.
Refused(op, c, res) ==
    /\ last' = [NoOp EXCEPT !.op = op, !.conn = c, !.res = res, !.pre = txn[c]]
    /\ UNCHANGED <<conns, engine, scope, aborted, refs, inCall, txn, enableThreads>>

\* A transaction call that reached the engine and got outcome o.
Answered(op, c, o, after) ==
    /\ aborted' = AbortAfter(o, FALSE)
    /\ txn' = IF o = "CRASH" THEN txn ELSE [txn EXCEPT ![c] = after]
    /\ last' = [NoOp EXCEPT !.op = op, !.conn = c, !.status = o,
                            !.res = IF o = "OK" THEN "Ok" ELSE "EngineFailure",
                            !.eng = TRUE, !.pre = txn[c], !.given = GivenBy(c)]
    /\ UNCHANGED <<conns, engine, scope, refs, inCall, enableThreads>>

\* begin without the check for a transaction already active.
begin_unchecked(c) ==
    /\ TxnOp(c)
    /\ IF ForbidsWrites(RetainedMode(c)) THEN Refused("begin", c, "ReadOnlyViolation")
       ELSE \E o \in EngineOutcomes(conns[c].db) :
                Answered("begin", c, o, IF o = "OK" THEN "Active" ELSE txn[c])

begin(c) ==
    /\ TxnOp(c)
    /\ IF ForbidsWrites(RetainedMode(c)) THEN Refused("begin", c, "ReadOnlyViolation")
       ELSE IF txn[c] = "Active" THEN Refused("begin", c, "TransactionAlreadyActive")
       ELSE \E o \in EngineOutcomes(conns[c].db) :
                Answered("begin", c, o, IF o = "OK" THEN "Active" ELSE "Idle")

commit(c) ==
    /\ TxnOp(c)
    /\ IF txn[c] = "Idle" THEN Refused("commit", c, "NoActiveTransaction")
       ELSE \E o \in EngineOutcomes(conns[c].db) :
                \E after \in (IF o = "OK" THEN {"Idle"} ELSE {"Idle", "Active"}) :
                    Answered("commit", c, o, after)

\* rollback that goes to Idle only when the engine reports success.
rollback_on_success(c) ==
    /\ TxnOp(c)
    /\ IF txn[c] = "Idle" THEN Refused("rollback", c, "NoActiveTransaction")
       ELSE \E o \in EngineOutcomes(conns[c].db) :
                Answered("rollback", c, o, IF o = "OK" THEN "Idle" ELSE "Active")

rollback(c) ==
    /\ TxnOp(c)
    /\ IF txn[c] = "Idle" THEN Refused("rollback", c, "NoActiveTransaction")
       ELSE \E o \in EngineOutcomes(conns[c].db) :
                Answered("rollback", c, o, "Idle")

Next ==
    \/ \E f \in Filenames : create(f)
    \/ create_in_memory
    \/ create_temp
    \/ \E f \in Filenames : open_mmap(f)
    \/ \E f \in Filenames : open_readonly(f)
    \/ \E c \in Slots : close(c)
    \/ \E c \in Slots : drop(c)
    \/ EndScope
    \/ Finish
    \/ \E u \in Workers, c \in Slots : share(u, c)
    \/ \E u \in Workers, c \in Slots : release(u, c)
    \/ \E t \in Threads, c \in Slots : get_config_call(t, c)
    \/ \E t \in Threads : get_config_return(t)
    \/ \E c \in Slots : begin(c)
    \/ \E c \in Slots : commit(c)
    \/ \E c \in Slots : rollback(c)

Spec == Init /\ [][Next]_vars

(* ------------------------------- claims ------------------------------- *)

Constructed(c) == conns[c].st # "none"

ScopeEnded == scope \in {"done", "panicked"} \/ aborted = "panic"

\* C1: when the owning scope of the Connections has ended, normally, by a
\* panic, or by the abort a second panic causes, Drop::drop has called
\* engine_close exactly once on every Connection a constructor returned.
ClosedExactlyOnceAtScopeEnd ==
    ScopeEnded => \A c \in Slots : Constructed(c) => conns[c].dropCloses = 1

\* C2: close is idempotent: whatever sequence of close calls (explicit or by
\* Drop::drop) a Connection has seen, its handle was passed to engine_close
\* at most once.
CloseIssuedAtMostOnce ==
    \A c \in Slots : conns[c].closeCalls <= 1

\* C3: a non-success status of the close made by Drop::drop is surfaced: the
\* owning scope is unwinding from a panic, has ended by one, or the process
\* was aborted; the scope never goes on or ends as if the close had succeeded.
ImplicitCloseFailureSurfaced ==
    \A c \in Slots :
        conns[c].dropStatus = "ERR" =>
            scope \in {"unwinding", "panicked"} \/ aborted # "no"

ImplicitCloseFailed ==
    \E c \in Slots : conns[c].dropStatus = "ERR" /\ scope = "panicked"

\* C4: a constructor returns a Connection exactly when the filename was
\* accepted and engine_open reported success, and the Connection then holds
\* the open instance that call established; otherwise it returns nothing and
\* the scope is unwinding from a panic or the process is aborted.  A drop
\* whose close the engine answers with success raises no fault.
ConstructorReturnsOrFaults ==
    /\ \A c \in Slots : Constructed(c) => conns[c].db \in Allocated
    /\ last.op \in Constructors =>
        /\ last.conn # 0 <=> last.status = "OK"
        /\ last.conn = 0 => scope = "unwinding" \/ aborted # "no"
        /\ last.conn # 0 =>
            /\ conns[last.conn].st = "live"
            /\ IsOpen(conns[last.conn].db)
            /\ aborted = "no"
    /\ (last.op = "drop" /\ last.status = "OK") =>
        /\ last.res = "Ok"
        /\ aborted = "no"

ConstructorFailedAfterCleanDrop ==
    /\ last.op \in Constructors
    /\ last.status # "OK"
    /\ \E c \in Slots : conns[c].st = "dropped" /\ conns[c].dropStatus = "OK"

\* The flags each constructor's mode stands for.
ExpectedFlags(ctor) ==
    CASE ctor = "open_readonly" -> UNQLITE_OPEN_READONLY
      [] ctor \in {"create", "create_in_memory"} -> UNQLITE_OPEN_CREATE
      [] ctor = "create_temp" -> UNQLITE_OPEN_TEMP_DB
      [] ctor = "open_mmap" -> UNQLITE_OPEN_MMAP + UNQLITE_OPEN_READONLY

\* x is a value of u32: 0 <= x < 2^32, said without leaving TLC's integers.
FitsU32(x) ==
    /\ x >= 0
    /\ x \div (2 ^ (FlagBits \div 2)) < 2 ^ (FlagBits \div 2)

WriteEnabling == UNQLITE_OPEN_READWRITE + UNQLITE_OPEN_CREATE

\* C5: the mapping from OpenMode to flags is total with a u32 result for
\* every mode; the flags handed to engine_open are those of the
\* constructor's mode, and those of MMap contain the read-only flag and no
\* write-enabling flag.
OpenModeFlags ==
    /\ \A m \in OpenMode : FitsU32(into(m))
    /\ HasFlag(into("MMap"), UNQLITE_OPEN_READONLY)
    /\ BitAnd(into("MMap"), WriteEnabling) = 0
    /\ \A i \in 1..Len(last.opens) :
        /\ last.opens[i].flags = ExpectedFlags(last.op)
        /\ last.op = "open_mmap" =>
            /\ HasFlag(last.opens[i].flags, UNQLITE_OPEN_READONLY)
            /\ HasFlag(last.opens[i].flags, UNQLITE_OPEN_MMAP)
            /\ BitAnd(last.opens[i].flags, WriteEnabling) = 0

MMapOpened == last.op = "open_mmap" /\ last.conn # 0 /\ Len(last.opens) = 1

\* The Connection was opened with open_readonly or open_mmap.
OpenedReadOnly(c) ==
    /\ conns[c].db \in Allocated
    /\ HasFlag(engine[conns[c].db].flags, UNQLITE_OPEN_READONLY)

\* C6: begin on a Connection opened with open_readonly or open_mmap fails
\* with ReadOnlyViolation and issues no engine call.
ReadOnlyBeginRefusedLocally ==
    (last.op = "begin" /\ OpenedReadOnly(last.conn)) =>
        /\ last.res = "ReadOnlyViolation"
        /\ ~last.eng

NoConcurrentUseWithoutMutex ==
    ~enableThreads =>
        \A t, u \in Threads :
            (t # u /\ inCall[t] # NULL) => inCall[t] # inCall[u]

\* C10: no two Connections hold the same engine handle: the handle a
\* constructor stores is the fresh instance of its own engine_open call, and
\* it is in no other Connection, live or dropped.
ExclusiveHandle ==
    \A c, d \in Slots :
        (c # d /\ Constructed(c) /\ Constructed(d)) => conns[c].db # conns[d].db

TwoLiveConnections ==
    \E c, d \in Slots : c # d /\ conns[c].st = "live" /\ conns[d].st = "live"

\* C11: once engine_close has been issued for a Connection's handle, no
\* engine call (transaction, configuration or another close, explicit or by
\* Drop::drop) is issued with that handle again.
NoEngineCallAfterClose == last.given # "closed"

\* C12: on every path through open, the failure paths included, the handle
\* given to engine_close or any other engine call is one a successful
\* engine_open established, never the placeholder of UnQlite::default().
PlaceholderNeverGivenToEngine == last.given # "placeholder"

\* The unqlite_open calls of the constructor just run carry the flags of its
\* mode and the path it was given; create_in_memory is create(":mem:") and
\* create_temp opens the empty path.
OpensAsItsMode ==
    /\ \A i \in 1..Len(last.opens) :
        /\ last.opens[i].flags = ExpectedFlags(last.op)
        /\ last.opens[i].path = last.arg
    /\ last.op = "create_in_memory" => last.arg = MemPath
    /\ last.op = "create_temp" => last.arg = EmptyPath

\* C13 as stated: every constructor issues exactly one engine_open call,
\* with the flags and the path of its mode.
ConstructorOpensExactlyOnce ==
    last.op \in Constructors => Len(last.opens) = 1 /\ OpensAsItsMode

\* C13: every constructor issues at most one engine_open call and never
\* retries it: exactly one, with the flags and the path of its mode, when
\* the filename holds no 0 byte, and none at all when it holds one.
ConstructorOpensOnceUnlessBadName ==
    last.op \in Constructors =>
        /\ Len(last.opens) = IF CStringNewOk(last.arg) THEN 1 ELSE 0
        /\ OpensAsItsMode

\* A constructor whose single engine_open call failed.
OpenFailedInEngine ==
    /\ last.op \in Constructors
    /\ last.status = "ERR"
    /\ Len(last.opens) = 1

\* C14: in a build with the engine's mutex, whatever the interleaving of the
\* threads that share a Connection, no two of them are inside engine calls
\* on the same handle at the same time, and a thread's call returns before
\* its next call starts (its calls take effect in its program order).
EngineSerializesCalls ==
    /\ [](enableThreads =>
            \A t, u \in Threads :
                (t # u /\ inCall[t] # NULL) => inCall[t] # inCall[u])
    /\ [][enableThreads =>
            \A t \in Threads :
                inCall[t] # NULL => inCall'[t] \in {inCall[t], NULL}]_vars

\* With the mutex, a worker is inside a call on a shared Connection and the
\* owner, free to call on the same Connection, is held back by the engine.
CallHeldBackByMutex ==
    /\ enableThreads
    /\ \E c \in Slots : \E t \in Workers :
        /\ t \in refs[c]
        /\ inCall[t] # NULL
        /\ inCall[t] = conns[c].db
        /\ CanAct(Owner)
        /\ CanUse(Owner, c)
        /\ ~EngineAdmits(conns[c].db)

====
